---- MODULE Spec2Model ----
(***************************************************************************)
(* State-machine model of the GEO tracker core of aboydnw/ds-geo-tracker:  *)
(*   - the Event Delivery Client, sendEventToPlausible (src/src/plausible.js) *)
(*   - the Orchestrator, runTracker / trackSource (src/src/orchestrator.js) *)
(* Each async function is split at its await points; everything the code   *)
(* does between two awaits is one action.                                  *)
(***************************************************************************)
EXTENDS Integers, Sequences, FiniteSets, TLC

(***************************************************************************)
(* Bounds of the model.                                                    *)
(***************************************************************************)
MaxSources == 2
MaxQueries == 2
MaxEnvChanges == 2

(***************************************************************************)
(* Program constants of plausible.js.                                      *)
(***************************************************************************)
MAX_RETRIES_Two == 1 + 1
MAX_RETRIES == 1
RETRY_DELAY_MS == 2000

VARIABLES
  \* ---- environment and state of one sendEventToPlausible call ----
  envDomain,      \* process.env.PLAUSIBLE_DOMAIN at call time
  fetchDefined,   \* typeof fetch !== 'undefined'
  sendArgs,       \* [props, options] passed to the call
  spc,            \* position of the call: idle, fetching, delaying, returned, rejected
  attempt,        \* loop variable of the retry loop (0-based, as in the code)
  responses,      \* outcomes of the requests that have settled, in order
  netlog,         \* network-visible events of the call: "request" / "backoff"
  sendResult,     \* value the call resolved to (meaningful when spc = "returned")
  \* ---- state of one runTracker call ----
  queries,        \* argument: configured query list
  sources,        \* argument: enabled sources, in configured order
  today,          \* calendar date of the wall clock
  dateStr,        \* runTracker local: date read when the run started
  rpc,            \* position of the run: idle, forSource, awaitQuery, sleeping, awaitTrackSource, returned
  si,             \* runTracker: index of the source being tracked (1-based)
  qi,             \* trackSource: loop variable i (1-based)
  success,        \* trackSource local
  fail,           \* trackSource local
  srcTokens,      \* trackSource local totalTokens
  srcRows,        \* trackSource local rows
  perSource,      \* runTracker local: name -> SourceResult, for the names set so far
  allRows,        \* runTracker local
  totalSuccess, totalFail, totalTokens, totalCost,
  runResult,      \* value runTracker resolved to (meaningful when rpc = "returned")
  trace,          \* history: calls, returns and sleeps of the run, in order
  \* ---- one application of a pure function (normalizer, analyzer) ----
  fnIn,           \* the argument
  fnOut,          \* the value returned, or the exception raised
  fnpc,           \* idle (not used), ready (argument chosen), done (function returned)
  \* ---- the CSV store ----
  csvFile,        \* the directory and the file at the path: [dir, exists, content]
  csvCall,        \* the last store operation and its argument
  csvRet,         \* what the last store operation returned
  csvBefore,      \* the file as it was before the last store operation
  csvCallBefore,  \* the store operation before the last one
  csvCalls,       \* how many store operations have run
  mpc,            \* where main() of index.js is: idle, start, running, exited
  exitCode,       \* process.exitCode (0 while it is unset)
  apiKeys,        \* providers whose API key is set in process.env
  envChanges,     \* how often process.env has changed since main started
  configured,     \* the queries of queries.js
  persisted,      \* the rows main has handed to appendResults
  callLog         \* per settled query() call: was the key set, was a request sent

sendVars == <<envDomain, fetchDefined, sendArgs, spc, attempt, responses, netlog, sendResult>>
runVars == <<queries, sources, today, dateStr, rpc, si, qi, success, fail, srcTokens, srcRows,
             perSource, allRows, totalSuccess, totalFail, totalTokens, totalCost,
             runResult, trace>>
fnVars == <<fnIn, fnOut, fnpc>>
csvVars == <<csvFile, csvCall, csvRet, csvBefore, csvCallBefore, csvCalls>>
mainVars == <<mpc, exitCode, apiKeys, envChanges, configured, persisted, callLog>>
libVars == <<fnVars, csvVars>>
vars == <<sendVars, runVars, libVars, mainVars>>

(***************************************************************************)
(* Event Delivery Client: src/src/plausible.js                             *)
(***************************************************************************)

\* JS undefined for an environment variable / an omitted argument.
Undefined == "<undefined>"

\* Values of process.env.PLAUSIBLE_DOMAIN.
DomainValues == {Undefined, "", "geo.test.org"}

\* props argument: a mapping of strings, or a value JSON.stringify throws on
\* (BigInt value, circular reference).
PropsValues == {"stringProps", "unserializableProps"}

\* options argument: omitted (default {} applies), null, or an object.
OptionsValues == {Undefined, "null", "object"}

\* HTTP statuses the sink may answer with.
StatusCodes == {200, 202, 204, 301, 400, 401, 404, 429, 500, 503}

\* null for the status / error parameter of isTransientFailure.
NullStatus == 0
NullError == [name |-> "null", code |-> "null"]

\* What one fetch() can settle to.  cause is what happened; name, code and
\* status are what the JavaScript code can observe of it.
HttpOutcome(s) == [cause |-> "http", status |-> s, name |-> "null", code |-> "null"]
ErrorOutcome(c, n, k) == [cause |-> c, status |-> NullStatus, name |-> n, code |-> k]
SinkOutcomes ==
  {HttpOutcome(s) : s \in StatusCodes}
    \cup {ErrorOutcome("abort", "AbortError", ""),       \* controller.abort() after FETCH_TIMEOUT_MS
          ErrorOutcome("network", "TypeError", ""),      \* fetch failed (DNS, refused, ...)
          ErrorOutcome("network", "Error", "ECONNRESET"),
          ErrorOutcome("other", "Error", "")}

ErrorOf(o) == IF o.cause = "http" THEN NullError ELSE [name |-> o.name, code |-> o.code]

isFetchAvailable == fetchDefined

isTransientFailure_ClientErrors(error, status) ==
  IF error # NullError
    THEN error.name = "AbortError" \/ error.name = "TypeError" \/ error.code = "ECONNRESET"
    ELSE IF status # 0 THEN status >= 400 ELSE FALSE

isTransientFailure_No5xx(error, status) ==
  IF error # NullError
    THEN error.name = "AbortError" \/ error.name = "TypeError" \/ error.code = "ECONNRESET"
    ELSE IF status # 0 THEN status = 429 ELSE FALSE

isTransientFailure(error, status) ==
  IF error # NullError
    THEN error.name = "AbortError" \/ error.name = "TypeError" \/ error.code = "ECONNRESET"
    ELSE IF status # 0 THEN status >= 500 \/ status = 429 ELSE FALSE

\* if (!domain)
DomainMissing_OnlyUndefined(domain) == domain = Undefined
DomainMissing(domain) == domain = Undefined \/ domain = ""

\* response.status === 202
IsAccepted_AnyOk(status) == status >= 200 /\ status < 300
IsAccepted(status) == status = 202

\* attempt < MAX_RETRIES
RetriesLeft(a) == a < MAX_RETRIES

\* Building payload and requestOptions (lines 143-165, outside the try):
\* options.url throws a TypeError when options is null, JSON.stringify(payload)
\* throws when props is not serializable.
BuildThrows(args) == args.options = "null" \/ args.props = "unserializableProps"

SendInit ==
  /\ envDomain \in DomainValues
  /\ fetchDefined \in BOOLEAN
  /\ sendArgs = [props |-> "stringProps", options |-> Undefined]
  /\ spc = "idle"
  /\ attempt = 0
  /\ responses = <<>>
  /\ netlog = <<>>
  /\ sendResult = FALSE

\* Entry of sendEventToPlausible up to the first await (lines 128-172).
sendEventToPlausible ==
  /\ spc = "idle"
  /\ \E p \in PropsValues, o \in OptionsValues :
       /\ sendArgs' = [props |-> p, options |-> o]
       /\ IF ~isFetchAvailable \/ DomainMissing(envDomain)
            THEN /\ spc' = "returned"
                 /\ sendResult' = FALSE
                 /\ UNCHANGED <<attempt, netlog>>
            ELSE IF BuildThrows(sendArgs')
              THEN /\ spc' = "rejected"
                   /\ UNCHANGED <<attempt, netlog, sendResult>>
              ELSE /\ spc' = "fetching"
                   /\ attempt' = 0
                   /\ netlog' = Append(netlog, "request")
                   /\ UNCHANGED sendResult
  /\ UNCHANGED <<envDomain, fetchDefined, responses>>
  /\ UNCHANGED <<runVars, libVars, mainVars>>

\* The awaited fetch settles: the try body after the await, or the catch
\* block (lines 177-210).
FetchSettles ==
  /\ spc = "fetching"
  /\ \E o \in SinkOutcomes :
       /\ responses' = Append(responses, o)
       /\ IF o.cause = "http" /\ IsAccepted(o.status)
            THEN /\ spc' = "returned"
                 /\ sendResult' = TRUE
                 /\ UNCHANGED netlog
            ELSE IF isTransientFailure(ErrorOf(o), o.status) /\ RetriesLeft(attempt)
              THEN /\ spc' = "delaying"
                   /\ netlog' = Append(netlog, "backoff")
                   /\ UNCHANGED sendResult
              ELSE /\ spc' = "returned"
                   /\ sendResult' = FALSE
                   /\ UNCHANGED netlog
  /\ UNCHANGED <<envDomain, fetchDefined, sendArgs, attempt>>
  /\ UNCHANGED <<runVars, libVars, mainVars>>

\* await delay(RETRY_DELAY_MS) resolves; continue: attempt++, loop test, and
\* the next fetch is issued (lines 188-189 / 202-203, 167-172).
RetryDelayElapsed ==
  /\ spc = "delaying"
  /\ attempt' = attempt + 1
  /\ IF attempt' <= MAX_RETRIES
       THEN /\ spc' = "fetching"
            /\ netlog' = Append(netlog, "request")
            /\ UNCHANGED sendResult
       ELSE /\ spc' = "returned"      \* line 213
            /\ sendResult' = FALSE
            /\ UNCHANGED netlog
  /\ UNCHANGED <<envDomain, fetchDefined, sendArgs, responses>>
  /\ UNCHANGED <<runVars, libVars, mainVars>>

(***************************************************************************)
(* Orchestrator: src/src/orchestrator.js                                   *)
(***************************************************************************)

\* Configured queries (src/src/queries.js); ids are unique, searchTerms has
\* at least one entry.
QueryPool ==
  { [id |-> "veda-dashboard", name |-> "VEDA Dashboard", category |-> "product",
     searchTerms |-> <<"veda-term-0", "veda-term-1">>],
    [id |-> "titiler", name |-> "titiler", category |-> "product",
     searchTerms |-> <<"titiler-term-0">>],
    [id |-> "stac", name |-> "STAC", category |-> "technology",
     searchTerms |-> <<"stac-term-0", "stac-term-1", "stac-term-2">>] }

\* Sources: two of the registry and the test mock (rateLimitMs 0).  tokens is
\* the usage.totalTokens the stubbed provider reports for a call.
SourcePool ==
  { [name |-> "Perplexity", rateLimitMs |-> 1000, dataSource |-> "web", tokens |-> 250],
    [name |-> "Claude", rateLimitMs |-> 1000, dataSource |-> "training", tokens |-> 400],
    [name |-> "MockLLM", rateLimitMs |-> 0, dataSource |-> "web", tokens |-> 60] }

SeqsUpTo(S, n) == UNION {[1..k -> S] : k \in 0..n}

Distinct(s) == \A a, b \in DOMAIN s : a # b => s[a] # s[b]

QueryLists == {ql \in SeqsUpTo(QueryPool, MaxQueries) : Distinct(ql)}
SourceLists == SeqsUpTo(SourcePool, MaxSources)

\* How an awaited source.query(searchTerm) can settle:
\*   "ok"    resolves to a NormalizedResult
\*   "throw" rejects (missing key, HTTP error, timeout)
\*   "bad"   resolves to an object with usage.totalTokens whose analysis throws
QueryOutcomes == {"ok", "throw", "bad"}

\* const searchTerm = query.searchTerms[0]   (index 0 in JS is index 1 here)
searchTerm_Last(query) == query.searchTerms[Len(query.searchTerms)]
searchTerm(query) == query.searchTerms[1]

\* if (i < queryList.length - 1), with i 1-based here
rateLimitDue_AfterEvery(i, n) == i <= n
rateLimitDue(i, n) == i < n

\* The catch block (lines 135-138) neither rethrows nor breaks: the loop goes
\* on to the next query whatever the outcome of the call was.
loopGoesOn_BreakOnError(outcome) == outcome = "ok"
loopGoesOn(outcome) == TRUE

\* allRows.push(...rows)
pushRows_Front(all, rows) == rows \o all
pushRows(all, rows) == all \o rows

\* rates[sourceName] || 1, doubled so that the table is integral
rateTimes2(sourceName) ==
  CASE sourceName = "Perplexity" -> 2
    [] sourceName = "Gemini" -> 1
    [] sourceName = "ChatGPT" -> 15
    [] sourceName = "Claude" -> 12
    [] OTHER -> 2

estimateCost_FlatRate(sourceName, tokens) == tokens * 2

\* (totalTokens / 1_000_000) * rate, in units of 1/2,000,000 USD
estimateCost(sourceName, tokens) == tokens * rateTimes2(sourceName)

EmptyObject == [n \in {} |-> 0]

\* perSource[name] = value
SetKey(obj, name, value) ==
  [n \in (DOMAIN obj) \cup {name} |-> IF n = name THEN value ELSE obj[n]]

Event(e, s, q, t, ms) == [ev |-> e, src |-> s, q |-> q, term |-> t, ms |-> ms]

\* rows.push({...}) of lines 118-132 (analysis fields are not modelled here)
EventRow_Today(source, query, tokens) ==
  [date |-> today, source |-> source.name, query_name |-> query.name,
   query_id |-> query.id, category |-> query.category,
   data_source |-> source.dataSource, tokens |-> tokens]

EventRow(source, query, tokens) ==
  [date |-> dateStr, source |-> source.name, query_name |-> query.name,
   query_id |-> query.id, category |-> query.category,
   data_source |-> source.dataSource, tokens |-> tokens]

\* Calendar dates of the wall clock (new Date().toISOString().split('T')[0])
Days == <<"2026-02-09", "2026-02-10">>

RunInit ==
  /\ queries = <<>>
  /\ sources = <<>>
  /\ today = Days[1]
  /\ dateStr = ""
  /\ rpc = "idle"
  /\ si = 0
  /\ qi = 0
  /\ success = 0
  /\ fail = 0
  /\ srcTokens = 0
  /\ srcRows = <<>>
  /\ perSource = EmptyObject
  /\ allRows = <<>>
  /\ totalSuccess = 0
  /\ totalFail = 0
  /\ totalTokens = 0
  /\ totalCost = 0
  /\ runResult = EmptyObject
  /\ trace = <<>>

\* runTracker(queries, sources): lines 164-173.
runTrackerWith(ql, sl) ==
  /\ rpc = "idle"
  /\ queries' = ql
  /\ sources' = sl
  /\ dateStr' = today
  /\ perSource' = EmptyObject
  /\ allRows' = <<>>
  /\ totalSuccess' = 0
  /\ totalFail' = 0
  /\ totalTokens' = 0
  /\ totalCost' = 0
  /\ si' = 0
  /\ rpc' = "forSource"
  /\ UNCHANGED <<today, qi, success, fail, srcTokens, srcRows, runResult, trace>>
  /\ UNCHANGED <<sendVars, libVars>>

\* A call of runTracker with any queries and sources.
runTracker ==
  /\ \E ql \in QueryLists, sl \in SourceLists : runTrackerWith(ql, sl)
  /\ UNCHANGED mainVars

\* Head of `for (const source of sources)`: either the next source enters
\* trackSource (lines 89-104, up to the first await), or the loop is over and
\* runTracker returns (lines 191-202).
NextSource ==
  /\ rpc = "forSource"
  /\ IF si < Len(sources)
       THEN /\ si' = si + 1
            /\ success' = 0
            /\ fail' = 0
            /\ srcTokens' = 0
            /\ srcRows' = <<>>
            /\ qi' = 1
            /\ IF 1 <= Len(queries)
                 THEN /\ rpc' = "awaitQuery"
                      /\ trace' = Append(trace, Event("call", si', 1, searchTerm(queries[1]), 0))
                 ELSE /\ rpc' = "awaitTrackSource"
                      /\ UNCHANGED trace
            /\ UNCHANGED runResult
       ELSE /\ rpc' = "returned"
            /\ runResult' = [totalEvents |-> totalSuccess + totalFail,
                             totalSuccess |-> totalSuccess,
                             totalFail |-> totalFail,
                             totalTokens |-> totalTokens,
                             totalCost |-> totalCost,
                             perSource |-> perSource,
                             rows |-> allRows]
            /\ UNCHANGED <<si, qi, success, fail, srcTokens, srcRows, trace>>
  /\ UNCHANGED <<queries, sources, today, dateStr, perSource, allRows,
                 totalSuccess, totalFail, totalTokens, totalCost>>
  /\ UNCHANGED <<sendVars, libVars, mainVars>>

\* The adapters read their API key from process.env; the test mock has none.
AdapterNames == {"Perplexity", "Gemini", "ChatGPT", "Claude"}

\* const apiKey = process.env.X_API_KEY; if (!apiKey) ... (perplexity.js 42-43)
hasKey(source, keys) == source.name \notin AdapterNames \/ source.name \in keys

\* the key is read once and kept: every call goes to the network
queryOutcomes_KeyCached(source, keys) ==
  {[fetched |-> TRUE, outcome |-> o] : o \in QueryOutcomes}

\* source.query(searchTerm): without the key it throws before fetch
\* (perplexity.js 42-45), with it the request is sent and the call settles in
\* any of the ways of QueryOutcomes.
queryOutcomes(source, keys) ==
  IF hasKey(source, keys)
  THEN {[fetched |-> TRUE, outcome |-> o] : o \in QueryOutcomes}
  ELSE {[fetched |-> FALSE, outcome |-> "throw"]}

failAfter_ThrowOnly(count, outcome) == IF outcome = "throw" THEN count + 1 ELSE count

\* catch (error) { fail++ }: every call that does not reach success++ fails
failAfter(count, outcome) == IF outcome = "ok" THEN count ELSE count + 1

\* The awaited source.query(searchTerm) settles: rest of the try block or the
\* catch block (lines 104-138), then the rate-limit test (lines 140-143).
QuerySettles ==
  /\ rpc = "awaitQuery"
  /\ \E settled_ \in queryOutcomes(sources[si], apiKeys) :
       LET source == sources[si]
           outcome == settled_.outcome
           query == queries[qi]
           n == Len(queries)
           queryTokens == source.tokens
           settled == Append(trace, Event(outcome, si, qi, searchTerm(query), 0))
       IN
       /\ srcTokens' = IF outcome = "throw" THEN srcTokens ELSE srcTokens + queryTokens
       /\ srcRows' = IF outcome = "ok"
                       THEN Append(srcRows, EventRow(source, query, queryTokens))
                       ELSE srcRows
       /\ success' = IF outcome = "ok" THEN success + 1 ELSE success
       /\ fail' = failAfter(fail, outcome)
       /\ callLog' = Append(callLog, [src |-> si, q |-> qi, hadKey |-> hasKey(source, apiKeys),
                                      fetched |-> settled_.fetched, outcome |-> outcome])
       /\ IF ~loopGoesOn(outcome)
            THEN /\ rpc' = "awaitTrackSource"
                 /\ trace' = settled
            ELSE IF rateLimitDue(qi, n)
              THEN /\ rpc' = "sleeping"
                   /\ trace' = Append(settled, Event("sleepStart", si, qi, "", source.rateLimitMs))
              ELSE /\ rpc' = "awaitTrackSource"
                   /\ trace' = settled
  /\ UNCHANGED <<queries, sources, today, dateStr, si, qi, perSource, allRows,
                 totalSuccess, totalFail, totalTokens, totalCost, runResult>>
  /\ UNCHANGED <<sendVars, libVars, mpc, exitCode, apiKeys, envChanges, configured, persisted>>

\* await delay(source.rateLimitMs) resolves: i++, loop test, next call issued
\* (lines 142, 95-104).
RateLimitElapsed ==
  /\ rpc = "sleeping"
  /\ LET woke == Append(trace, Event("sleepEnd", si, qi, "", sources[si].rateLimitMs))
     IN
     /\ qi' = qi + 1
     /\ IF qi' <= Len(queries)
          THEN /\ rpc' = "awaitQuery"
               /\ trace' = Append(woke, Event("call", si, qi', searchTerm(queries[qi']), 0))
          ELSE /\ rpc' = "awaitTrackSource"
               /\ trace' = woke
  /\ UNCHANGED <<queries, sources, today, dateStr, si, success, fail, srcTokens, srcRows,
                 perSource, allRows, totalSuccess, totalFail, totalTokens, totalCost,
                 runResult>>
  /\ UNCHANGED <<sendVars, libVars, mainVars>>

\* trackSource returns (lines 146-150) and runTracker folds its result into
\* the run (lines 178-185).
TrackSourceReturns ==
  /\ rpc = "awaitTrackSource"
  /\ LET name == sources[si].name
         cost == estimateCost(name, srcTokens)
         sourceResult == [success |-> success, fail |-> fail,
                          tokens |-> srcTokens, cost |-> cost]
     IN
     /\ perSource' = SetKey(perSource, name, sourceResult)
     /\ allRows' = pushRows(allRows, srcRows)
     /\ totalSuccess' = totalSuccess + sourceResult.success
     /\ totalFail' = totalFail + sourceResult.fail
     /\ totalTokens' = totalTokens + sourceResult.tokens
     /\ totalCost' = totalCost + sourceResult.cost
  /\ rpc' = "forSource"
  /\ UNCHANGED <<queries, sources, today, dateStr, si, qi, success, fail, srcTokens, srcRows,
                 runResult, trace>>
  /\ UNCHANGED <<sendVars, libVars, mainVars>>

\* The calendar day changes while the run is under way (the wall clock is
\* read by new Date() in line 166 only).
MidnightPasses ==
  /\ today = Days[1]
  /\ rpc # "returned"
  /\ today' = Days[2]
  /\ UNCHANGED <<queries, sources, dateStr, rpc, si, qi, success, fail, srcTokens, srcRows,
                 perSource, allRows, totalSuccess, totalFail, totalTokens, totalCost,
                 runResult, trace>>
  /\ UNCHANGED <<sendVars, libVars, mainVars>>

(***************************************************************************)
(* Entry point: main() of index.js                                         *)
(***************************************************************************)

\* export const ALL_SOURCES = [perplexity, gemini, chatgpt, claude]
ALL_SOURCES ==
  << [name |-> "Perplexity", rateLimitMs |-> 1000, dataSource |-> "web", tokens |-> 250],
     [name |-> "Gemini", rateLimitMs |-> 1000, dataSource |-> "web", tokens |-> 120],
     [name |-> "ChatGPT", rateLimitMs |-> 1000, dataSource |-> "web", tokens |-> 300],
     [name |-> "Claude", rateLimitMs |-> 1000, dataSource |-> "training", tokens |-> 400] >>

\* enabled() { return !!process.env.X_API_KEY }
enabled(source, keys) == source.name \in keys

\* ALL_SOURCES.filter((s) => s.enabled())
enabledSources(keys) == SelectSeq(ALL_SOURCES, LAMBDA s : enabled(s, keys))

escalates_AtHalf(results) == results.totalFail >= results.totalSuccess

\* if (results.totalFail > results.totalSuccess)
escalates(results) == results.totalFail > results.totalSuccess

\* A row that an earlier run left in data/results.csv.
OldRow ==
  [date |-> "2026-02-08", source |-> "Perplexity", query_name |-> "STAC",
   query_id |-> "stac", category |-> "technology", data_source |-> "web", tokens |-> 90]

PriorRows == {<<>>, <<OldRow>>}

\* main() up to its first await (lines 21-53): no queries is fatal, no
\* enabled source is not, otherwise runTracker starts on the enabled sources.
main ==
  /\ mpc = "start"
  /\ IF Len(configured) = 0
       THEN /\ exitCode' = 1
            /\ mpc' = "exited"
            /\ UNCHANGED runVars
       ELSE IF Len(enabledSources(apiKeys)) = 0
         THEN /\ mpc' = "exited"
              /\ UNCHANGED <<exitCode, runVars>>
         ELSE /\ runTrackerWith(configured, enabledSources(apiKeys))
              /\ mpc' = "running"
              /\ UNCHANGED exitCode
  /\ UNCHANGED <<apiKeys, envChanges, configured, persisted, callLog>>
  /\ UNCHANGED <<sendVars, libVars>>

\* await runTracker(...) resolves: the rows go to the CSV store, then the
\* exit code is decided (lines 53-92).  persisted is the store's data rows.
mainResumes ==
  /\ mpc = "running"
  /\ rpc = "returned"
  /\ persisted' = persisted \o runResult.rows
  /\ exitCode' = IF escalates(runResult) THEN 1 ELSE exitCode
  /\ mpc' = "exited"
  /\ UNCHANGED <<apiKeys, envChanges, configured, callLog>>
  /\ UNCHANGED <<sendVars, runVars, libVars>>

\* The environment sets or removes the API key of a selected provider while
\* the run is under way.  A query() reads its key synchronously when it is
\* called, so a change during the await is seen by the next call only.
CredentialChanges ==
  /\ mpc = "running"
  /\ rpc \notin {"awaitQuery", "returned"}
  /\ envChanges < MaxEnvChanges
  /\ \E k \in DOMAIN sources :
       LET name == sources[k].name
       IN apiKeys' = IF name \in apiKeys THEN apiKeys \ {name} ELSE apiKeys \cup {name}
  /\ envChanges' = envChanges + 1
  /\ UNCHANGED <<mpc, exitCode, configured, persisted, callLog>>
  /\ UNCHANGED <<sendVars, runVars, libVars>>

(***************************************************************************)
(* Specifications.  SpecSend runs one delivery call against every sink     *)
(* behaviour; SpecRun runs one orchestration pass against every provider   *)
(* behaviour.                                                              *)
(***************************************************************************)
\* The pure-function harness and the CSV store when a specification does not
\* use them.
\* main() of index.js when a specification does not run it: every adapter
\* has its key.
MainIdle ==
  /\ mpc = "idle"
  /\ exitCode = 0
  /\ apiKeys = AdapterNames
  /\ envChanges = 0
  /\ configured = <<>>
  /\ persisted = <<>>
  /\ callLog = <<>>

CsvIdle ==
  /\ csvFile = [dir |-> FALSE, exists |-> FALSE, content |-> <<>>]
  /\ csvCall = [op |-> "none", rows |-> [kind |-> "undefined", items |-> <<>>]]
  /\ csvRet = 0
  /\ csvBefore = [dir |-> FALSE, exists |-> FALSE, content |-> <<>>]
  /\ csvCallBefore = [op |-> "none", rows |-> [kind |-> "undefined", items |-> <<>>]]
  /\ csvCalls = 0

LibIdle ==
  /\ fnIn = <<>>
  /\ fnOut = <<>>
  /\ fnpc = "idle"
  /\ CsvIdle

SendIdle ==
  /\ envDomain = "geo.test.org"
  /\ fetchDefined = TRUE
  /\ sendArgs = [props |-> "stringProps", options |-> Undefined]
  /\ spc = "idle"
  /\ attempt = 0
  /\ responses = <<>>
  /\ netlog = <<>>
  /\ sendResult = FALSE

InitSend == SendInit /\ RunInit /\ LibIdle /\ MainIdle
NextSend == sendEventToPlausible \/ FetchSettles \/ RetryDelayElapsed
SpecSend == InitSend /\ [][NextSend]_vars

InitRun ==
  /\ RunInit
  /\ LibIdle
  /\ MainIdle
  /\ envDomain = "geo.test.org"
  /\ fetchDefined = TRUE
  /\ sendArgs = [props |-> "stringProps", options |-> Undefined]
  /\ spc = "idle"
  /\ attempt = 0
  /\ responses = <<>>
  /\ netlog = <<>>
  /\ sendResult = FALSE
NextRun ==
  \/ runTracker \/ NextSource \/ QuerySettles \/ RateLimitElapsed \/ TrackSourceReturns
  \/ MidnightPasses
SpecRun == InitRun /\ [][NextRun]_vars

\* The same run when every awaited promise settles: a provider call returns
\* or throws, a rate-limit timer fires, and the event loop resumes the async
\* functions.  Nothing obliges a caller to start a run or the day to change.
FairRun ==
  /\ WF_vars(NextSource)
  /\ WF_vars(QuerySettles)
  /\ WF_vars(RateLimitElapsed)
  /\ WF_vars(TrackSourceReturns)
SpecRunFair == InitRun /\ [][NextRun]_vars /\ FairRun

\* One process: main() with any configured queries, at most MaxSources API
\* keys set at the start, and any earlier content of the store.
InitMain ==
  /\ RunInit
  /\ LibIdle
  /\ SendIdle
  /\ mpc = "start"
  /\ exitCode = 0
  /\ apiKeys \in {ks \in SUBSET AdapterNames : Cardinality(ks) <= MaxSources}
  /\ envChanges = 0
  /\ configured \in QueryLists
  /\ persisted \in PriorRows
  /\ callLog = <<>>
NextMain ==
  \/ main \/ NextSource \/ QuerySettles \/ RateLimitElapsed \/ TrackSourceReturns
  \/ mainResumes \/ CredentialChanges
SpecMain == InitMain /\ [][NextMain]_vars

(***************************************************************************)
(* Properties of the Event Delivery Client (checked under SpecSend).       *)
(***************************************************************************)
Count(seq, x) == Cardinality({k \in DOMAIN seq : seq[k] = x})
Requests == Count(netlog, "request")
Backoffs == Count(netlog, "backoff")
Last(seq) == seq[Len(seq)]

\* C2: when the sink answers the first request with HTTP 503, the call sends
\* exactly two requests with exactly one backoff wait between them, and it
\* returns true if the second answer is HTTP 202 and false if the second
\* answer is HTTP 503 again.
C2_RetryOnce503 ==
  (spc = "returned" /\ Len(responses) >= 1 /\ responses[1] = HttpOutcome(503))
    => /\ Len(responses) = 2
       /\ netlog = <<"request", "backoff", "request">>
       /\ (responses[2] = HttpOutcome(202) => sendResult = TRUE)
       /\ (responses[2] = HttpOutcome(503) => sendResult = FALSE)

C2_Witness ==
  /\ spc = "returned"
  /\ responses = <<HttpOutcome(503), HttpOutcome(202)>>
  /\ Requests = 2
  /\ sendResult = TRUE

\* C3: whatever the sink does, one call sends at most two requests and waits
\* the backoff at most once, and the wait lies between the first and the
\* second request.
C3_AtMostOneRetry ==
  /\ Requests <= 2
  /\ Backoffs <= 1
  /\ \A k \in DOMAIN netlog : netlog[k] = <<"request", "backoff", "request">>[k]

C3_Witness ==
  /\ spc = "returned"
  /\ netlog = <<"request", "backoff", "request">>
  /\ Len(responses) = 2
  /\ responses[2].cause = "abort"

\* The failures the retry policy calls transient: abort/timeout, network-level
\* error, HTTP 5xx, HTTP 429.
TransientCause(o) ==
  \/ o.cause \in {"abort", "network"}
  \/ o.cause = "http" /\ (o.status >= 500 \/ o.status = 429)

FirstFailed == Len(responses) >= 1 /\ responses[1] # HttpOutcome(202)

\* C4: a failed first attempt is followed by a backoff and a second request
\* exactly when the failure is transient; after any other failed first attempt
\* the call has returned false with one request sent and no backoff.
C4_RetryIffTransient ==
  FirstFailed =>
    IF TransientCause(responses[1])
      THEN /\ Len(netlog) >= 2
           /\ netlog[2] = "backoff"
           /\ (spc = "returned" => Requests = 2)
      ELSE /\ spc = "returned"
           /\ sendResult = FALSE
           /\ netlog = <<"request">>

C4_Witness ==
  /\ spc = "returned"
  /\ responses = <<HttpOutcome(404)>>
  /\ netlog = <<"request">>
  /\ sendResult = FALSE

\* C5: the call returns true exactly when the last request it sent was
\* answered with HTTP 202; any other status and any thrown error on the last
\* request gives false.
C5_TrueIffLast202 ==
  spc = "returned" =>
    (sendResult = TRUE <=> (Len(responses) >= 1 /\ Last(responses) = HttpOutcome(202)))

C5_Witness ==
  /\ spc = "returned"
  /\ Len(responses) = 1
  /\ responses[1] = HttpOutcome(200)
  /\ sendResult = FALSE

\* C6: with PLAUSIBLE_DOMAIN unset or empty at call time, the call returns
\* false without sending any request and without any backoff wait.
C6_NoDomainNoRequest ==
  (spc # "idle" /\ envDomain \in {Undefined, ""})
    => /\ spc = "returned"
       /\ sendResult = FALSE
       /\ netlog = <<>>
       /\ responses = <<>>

C6_Witness ==
  /\ spc = "returned"
  /\ envDomain = ""
  /\ fetchDefined
  /\ sendResult = FALSE
  /\ netlog = <<>>

\* C7: no exception escapes sendEventToPlausible: for every input and every
\* sink behaviour the call never rejects.
C7_NeverRejects == spc # "rejected"

(***************************************************************************)
(* Properties of the Orchestrator (checked under SpecRun).                 *)
(***************************************************************************)
Settled == {"ok", "throw", "bad"}
N == Len(queries)
EventsOf(e, s) == {k \in DOMAIN trace : trace[k].ev = e /\ trace[k].src = s}
Calls == SelectSeq(trace, LAMBDA e : e.ev = "call")
OkCalls == SelectSeq(trace, LAMBDA e : e.ev = "ok")

AlwaysThrows(s) == \A k \in DOMAIN trace : (trace[k].src = s /\ trace[k].ev \in Settled) => trace[k].ev = "throw"
AlwaysSucceeds(s) == \A k \in DOMAIN trace : (trace[k].src = s /\ trace[k].ev \in Settled) => trace[k].ev = "ok"

Isolated(a, b) ==
  LET A == sources[a].name
      B == sources[b].name
      r == runResult
  IN /\ r.perSource[A].fail = N
     /\ r.perSource[A].success = 0
     /\ r.perSource[B].success = N
     /\ r.perSource[B].fail = 0
     /\ Len(r.rows) = N
     /\ \A k \in 1..N : /\ r.rows[k].source = B
                        /\ r.rows[k].query_id = queries[k].id
                        /\ r.rows[k].tokens = sources[b].tokens

\* C1: in a run over N queries and two providers A and B (in either order)
\* where every call to A throws and every call to B succeeds, the result has
\* perSource[A] = N failed / 0 succeeded, perSource[B] = N succeeded / 0
\* failed, and rows is exactly B's N rows.
C1_FaultIsolation ==
  (rpc = "returned" /\ Len(sources) = 2 /\ sources[1].name # sources[2].name)
    => \A a, b \in 1..2 :
         (a # b /\ AlwaysThrows(a) /\ AlwaysSucceeds(b)) => Isolated(a, b)

C1_Witness ==
  /\ rpc = "returned"
  /\ Len(sources) = 2
  /\ sources[1].name # sources[2].name
  /\ N = 2
  /\ AlwaysThrows(1)
  /\ AlwaysSucceeds(2)
  /\ Isolated(1, 2)

\* C8: for every provider the rate-limit sleep of its rateLimitMs happens once
\* after each call except the last one, whether the call succeeded or failed
\* (max(N-1, 0) sleeps for N calls), and a call after the first one is issued
\* only right after the sleep that follows the previous call has completed.
C8_RateLimit ==
  /\ \A k \in DOMAIN trace :
       /\ (trace[k].ev = "call" /\ trace[k].q > 1) =>
            /\ k > 3
            /\ trace[k-1] = Event("sleepEnd", trace[k].src, trace[k].q - 1, "",
                                  sources[trace[k].src].rateLimitMs)
            /\ trace[k-2] = Event("sleepStart", trace[k].src, trace[k].q - 1, "",
                                  sources[trace[k].src].rateLimitMs)
            /\ trace[k-3].ev \in Settled
            /\ trace[k-3].src = trace[k].src
            /\ trace[k-3].q = trace[k].q - 1
       /\ trace[k].ev = "sleepStart" => trace[k].q < N
  /\ rpc = "returned" =>
       \A s \in DOMAIN sources :
         /\ Cardinality(EventsOf("call", s)) = N
         /\ Cardinality(EventsOf("sleepStart", s)) = IF N >= 1 THEN N - 1 ELSE 0
         /\ Cardinality(EventsOf("sleepEnd", s)) = IF N >= 1 THEN N - 1 ELSE 0

C8_Witness ==
  /\ rpc = "returned"
  /\ N = 2
  /\ Len(sources) = 1
  /\ sources[1].rateLimitMs = 1000
  /\ Len(trace) = 6
  /\ trace[2].ev = "throw"
  /\ trace[3].ev = "sleepStart"
  /\ trace[4].ev = "sleepEnd"
  /\ trace[5].ev = "call"

LexLess(e, f) == e.src < f.src \/ (e.src = f.src /\ e.q < f.q)

\* C9: calls are issued in source order and, within a source, in query order;
\* the returned rows are the rows of the successful calls in that same order,
\* so a provider's rows keep the order of its queries and all rows of an
\* earlier provider precede all rows of a later one.
C9_Ordering ==
  /\ \A j, k \in DOMAIN Calls : j < k => LexLess(Calls[j], Calls[k])
  /\ rpc = "returned" =>
       /\ Len(Calls) = Len(sources) * N
       /\ Len(runResult.rows) = Len(OkCalls)
       /\ \A k \in DOMAIN OkCalls :
            /\ runResult.rows[k].source = sources[OkCalls[k].src].name
            /\ runResult.rows[k].query_id = queries[OkCalls[k].q].id
       /\ \A j, k \in DOMAIN OkCalls : j < k => LexLess(OkCalls[j], OkCalls[k])

C9_Witness ==
  /\ rpc = "returned"
  /\ Len(sources) = 2
  /\ sources[1].name # sources[2].name
  /\ N = 2
  /\ Len(runResult.rows) = 2
  /\ runResult.rows[1].source = sources[1].name
  /\ runResult.rows[1].query_id = queries[2].id
  /\ runResult.rows[2].source = sources[2].name
  /\ runResult.rows[2].query_id = queries[1].id

RECURSIVE SumTerms(_)
SumTerms(ql) == IF ql = <<>> THEN 0 ELSE Len(Head(ql).searchTerms) + SumTerms(Tail(ql))

AllSucceeded == \A k \in DOMAIN trace : trace[k].ev \in Settled => trace[k].ev = "ok"

\* The (query, term) pairs in query order, then term array order.
RECURSIVE TermsInOrder(_, _)
TermsInOrder(ql, t) ==
  IF ql = <<>> THEN <<>>
  ELSE IF t > Len(Head(ql).searchTerms) THEN TermsInOrder(Tail(ql), 1)
  ELSE <<[id |-> Head(ql).id, term |-> Head(ql).searchTerms[t]]>> \o TermsInOrder(ql, t + 1)

\* C11: every search term of every query is queried on its own, so when all
\* calls of a run over S sources succeed, totalEvents, totalSuccess and
\* rows.length all equal S times the number of search terms (Q*T*S for Q
\* queries of T terms each), with one call and one row per (source, query,
\* term), in source order, then query order, then term array order.
C11_PerTermExpansion ==
  (rpc = "returned" /\ AllSucceeded) =>
    LET r == runResult
        S == Len(sources)
        perSrc == TermsInOrder(queries, 1)
        m == Len(perSrc)
    IN /\ m = SumTerms(queries)
       /\ r.totalEvents = m * S
       /\ r.totalSuccess = m * S
       /\ Len(r.rows) = m * S
       /\ Len(Calls) = m * S
       /\ \A s \in 1..S, j \in 1..m :
            /\ Calls[(s - 1) * m + j].term = perSrc[j].term
            /\ r.rows[(s - 1) * m + j].source = sources[s].name
            /\ r.rows[(s - 1) * m + j].query_id = perSrc[j].id

(***************************************************************************)
(* Response Normalizers: normalizeResponse of                              *)
(*   src/src/sources/perplexity.js (Perplexity),                           *)
(*   src/src/sources/chatgpt.test.js lines 597-634 (Gemini),               *)
(*   src/unnamed/part_003 lines 122-168 (ChatGPT),                         *)
(*   src/unnamed/part_002 lines 100-121 (Claude).                          *)
(***************************************************************************)

\* Longest list in a raw payload.
MaxItems == 2

\* A null element of a list of the payload.
NullItem == "<null>"

\* A missing count of the usage object.
Absent == -1

TextSegments == {"Hello "}
CitedUrls == {"https://developmentseed.org/blog", "https://gdal.org"}

\* A list-valued field of a raw payload: missing, present but not an array
\* (a number), or an array whose elements are values or null.
ListField(values) ==
  {[shape |-> "absent", items |-> <<>>], [shape |-> "scalar", items |-> <<>>]}
    \cup {[shape |-> "array", items |-> l] : l \in SeqsUpTo(values \cup {NullItem}, MaxItems)}

NoField == [shape |-> "absent", items |-> <<>>]

UsageFields == [p : {Absent, 50}, c : {Absent, 200}, t : {Absent, 250}]

\* Raw payloads.  text is the list that carries the answer text (choices,
\* candidates[0].content.parts, output, content), cites the list that carries
\* the cited URLs (citations, groundingChunks, annotations of each text part),
\* results is Perplexity's search_results.
RawPayloads ==
  {[provider |-> "Perplexity", text |-> x, cites |-> c, results |-> r, usage |-> u] :
      x \in ListField(TextSegments), c \in ListField(CitedUrls),
      r \in ListField({"https://gdal.org"}), u \in UsageFields}
  \cup
  {[provider |-> pr, text |-> x, cites |-> c, results |-> NoField, usage |-> u] :
      pr \in {"Gemini", "ChatGPT"},
      x \in ListField(TextSegments), c \in ListField(CitedUrls), u \in UsageFields}
  \cup
  {[provider |-> "Claude", text |-> x, cites |-> NoField, results |-> NoField, usage |-> u] :
      x \in ListField(TextSegments), u \in UsageFields}

\* x || 0
OrZero(x) == IF x = Absent THEN 0 ELSE x

HasNull(items) == \E k \in DOMAIN items : items[k] = NullItem

\* [...new Set(urls)]: first occurrences, in order
RECURSIVE Unique(_)
Unique(urls) ==
  IF urls = <<>> THEN <<>>
  ELSE LET front == Unique(SubSeq(urls, 1, Len(urls) - 1))
           last == urls[Len(urls)]
       IN IF \E k \in DOMAIN front : front[k] = last THEN front ELSE Append(front, last)

SearchResult(u) == [title |-> "", url |-> u, snippet |-> ""]
AsResults(urls) == [k \in DOMAIN urls |-> SearchResult(urls[k])]

RECURSIVE Repeat(_, _)
Repeat(seq, n) == IF n = 0 THEN <<>> ELSE seq \o Repeat(seq, n - 1)

Thrown == [threw |-> TRUE, content |-> <<>>, citations |-> <<>>, searchResults |-> <<>>,
           usage |-> [promptTokens |-> 0, completionTokens |-> 0, totalTokens |-> 0]]
Normalized(content, citations, searchResults, usage) ==
  [threw |-> FALSE, content |-> content, citations |-> citations,
   searchResults |-> searchResults, usage |-> usage]

\* usage with the total the provider reports (Perplexity, Gemini)
ReportedUsage(u) ==
  [promptTokens |-> OrZero(u.p), completionTokens |-> OrZero(u.c), totalTokens |-> OrZero(u.t)]
\* usage with the total computed (ChatGPT, Claude)
SummedUsage(u) ==
  [promptTokens |-> OrZero(u.p), completionTokens |-> OrZero(u.c),
   totalTokens |-> OrZero(u.p) + OrZero(u.c)]

normalizePerplexity(data) ==
  LET content == IF data.text.shape = "array" /\ data.text.items # <<>>
                      /\ data.text.items[1] # NullItem
                   THEN <<data.text.items[1]>>        \* choices?.[0]?.message?.content
                   ELSE <<>>
      citations == IF data.cites.shape = "array" THEN data.cites.items ELSE <<>>
      raw == IF data.results.shape = "array" THEN data.results.items ELSE <<>>
  IN IF HasNull(raw)                                   \* r.title of null
       THEN Thrown
       ELSE Normalized(content, citations, AsResults(raw), ReportedUsage(data.usage))

normalizeGemini(data) ==
  IF data.text.shape = "scalar" \/ HasNull(data.text.items)     \* parts.map, p.text
    THEN Thrown
  ELSE IF data.cites.shape = "scalar" \/ HasNull(data.cites.items)  \* chunks.filter, chunk.web
    THEN Thrown
  ELSE Normalized(data.text.items, data.cites.items, AsResults(data.cites.items),
                  ReportedUsage(data.usage))

normalizeChatGPT(data) ==
  IF data.text.shape = "scalar" \/ HasNull(data.text.items)     \* output.filter, item.type
    THEN Thrown
  ELSE IF data.text.items # <<>> /\ (data.cites.shape = "scalar" \/ HasNull(data.cites.items))
    THEN Thrown                                                  \* for..of, annotation.type
  ELSE LET annotated == Repeat(data.cites.items, Len(data.text.items))
       IN Normalized(data.text.items, Unique(annotated), AsResults(annotated),
                     SummedUsage(data.usage))

normalizeClaude(data) ==
  IF data.text.shape = "scalar" \/ HasNull(data.text.items)     \* contentBlocks.filter, block.type
    THEN Thrown
  ELSE Normalized(data.text.items, <<>>, <<>>, SummedUsage(data.usage))

normalizeResponse(data) ==
  CASE data.provider = "Perplexity" -> normalizePerplexity(data)
    [] data.provider = "Gemini" -> normalizeGemini(data)
    [] data.provider = "ChatGPT" -> normalizeChatGPT(data)
    [] data.provider = "Claude" -> normalizeClaude(data)

InitNormalize ==
  /\ RunInit
  /\ MainIdle
  /\ SendIdle
  /\ fnIn \in RawPayloads
  /\ fnOut = Thrown
  /\ fnpc = "ready"
  /\ CsvIdle

Normalize ==
  /\ fnpc = "ready"
  /\ fnOut' = normalizeResponse(fnIn)
  /\ fnpc' = "done"
  /\ UNCHANGED <<fnIn, csvVars, sendVars, runVars, mainVars>>

NextNormalize == Normalize
SpecNormalize == InitNormalize /\ [][NextNormalize]_vars

\* C12: every normalizer is total: for every raw payload, also one whose
\* lists are missing, not arrays or contain null, it raises no exception and
\* returns content, citations, searchResults and the three usage counts.
C12_NormalizerTotal ==
  fnpc = "done" =>
    /\ ~fnOut.threw
    /\ fnOut.content \in Seq(TextSegments)
    /\ DOMAIN fnOut.usage = {"promptTokens", "completionTokens", "totalTokens"}

\* The URLs a payload cites, in first-seen order (null elements are no URLs).
CitedBy(data) ==
  LET urls == SelectSeq(data.cites.items, LAMBDA u : u # NullItem)
  IN IF data.provider = "Claude" THEN <<>> ELSE Unique(urls)

\* C13: a URL a payload cites more than once appears exactly once in the
\* normalized citations, and the citations keep first-seen order.
C13_CitationsDeduplicated ==
  (fnpc = "done" /\ ~fnOut.threw) =>
    /\ \A j, k \in DOMAIN fnOut.citations :
         (j # k /\ fnOut.citations[j] \in CitedUrls) => fnOut.citations[j] # fnOut.citations[k]
    /\ (~HasNull(fnIn.cites.items) /\ fnIn.text.items # <<>>) => fnOut.citations = CitedBy(fnIn)

\* C14: the three usage counts are never negative, a count the payload does
\* not report is 0, and when the payload reports no combined total,
\* totalTokens = promptTokens + completionTokens.
C14_TokenAccounting ==
  (fnpc = "done" /\ ~fnOut.threw) =>
    LET u == fnOut.usage
    IN /\ u.promptTokens >= 0 /\ u.completionTokens >= 0 /\ u.totalTokens >= 0
       /\ fnIn.usage.p = Absent => u.promptTokens = 0
       /\ fnIn.usage.c = Absent => u.completionTokens = 0
       /\ fnIn.usage.t = Absent => u.totalTokens = u.promptTokens + u.completionTokens


\* C21: every successful provider call is shipped to the event sink through
\* the delivery client and its row is in the returned rows, whatever the
\* delivery returned; a failed delivery neither removes the row nor makes the
\* call a failed unit.
C21_DeliveryIndependent ==
  rpc = "returned" =>
    /\ Len(runResult.rows) = Len(OkCalls)
    /\ runResult.totalSuccess = Len(OkCalls)
    /\ Requests >= Len(OkCalls)

\* C22: in every result totalEvents = totalSuccess + totalFail = the number
\* of provider calls made, rows.length = totalSuccess, every provider's
\* success + fail is the number of calls made to it, and without sources or
\* without queries all totals are 0 and rows is empty.
C22_RunAccounting ==
  rpc = "returned" =>
    LET r == runResult
    IN /\ r.totalEvents = r.totalSuccess + r.totalFail
       /\ r.totalEvents = Len(Calls)
       /\ Len(r.rows) = r.totalSuccess
       /\ \A s \in DOMAIN sources :
            r.perSource[sources[s].name].success + r.perSource[sources[s].name].fail
              = Cardinality(EventsOf("call", s))
       /\ (sources = <<>> \/ queries = <<>>) =>
            /\ r.totalEvents = 0 /\ r.totalSuccess = 0 /\ r.totalFail = 0
            /\ r.totalTokens = 0 /\ r.totalCost = 0
            /\ r.rows = <<>>

C22_Witness ==
  /\ rpc = "returned"
  /\ Len(sources) = 2
  /\ sources[1].name # sources[2].name
  /\ N = 2
  /\ runResult.totalEvents = 4
  /\ runResult.totalSuccess = 1
  /\ runResult.totalFail = 3
  /\ Len(runResult.rows) = 1
  /\ \E k \in DOMAIN trace : trace[k].ev = "bad"
  /\ \E k \in DOMAIN trace : trace[k].ev = "throw"

\* Sum of the tokens fields of the rows of provider p.
RECURSIVE RowTokens(_, _)
RowTokens(rows, p) ==
  IF rows = <<>> THEN 0
  ELSE (IF Head(rows).source = p THEN Head(rows).tokens ELSE 0) + RowTokens(Tail(rows), p)

NamedOnce(p) == Cardinality({s \in DOMAIN sources : sources[s].name = p}) = 1

\* C26: in every result a provider's token total is the sum of the tokens of
\* its rows: a call counted as failed adds no tokens, also when the provider
\* returned a result with a usage total and the analysis of it threw.
C26_TokensMatchRows ==
  rpc = "returned" =>
    \A p \in DOMAIN runResult.perSource :
      NamedOnce(p) => runResult.perSource[p].tokens = RowTokens(runResult.rows, p)

\* Sum of one field over the entries of a per-provider breakdown.
RECURSIVE SumField(_, _, _)
SumField(breakdown, names, field) ==
  IF names = {} THEN 0
  ELSE LET p == CHOOSE n \in names : TRUE
       IN breakdown[p][field] + SumField(breakdown, names \ {p}, field)

\* C27: in every result each of totalSuccess, totalFail, totalTokens and
\* totalCost is the sum of that field over the entries of perSource, and
\* perSource has one entry per source passed in, also when two sources have
\* the same name.
C27_BreakdownMatchesTotals ==
  rpc = "returned" =>
    LET r == runResult
        names == DOMAIN r.perSource
    IN /\ r.totalSuccess = SumField(r.perSource, names, "success")
       /\ r.totalFail = SumField(r.perSource, names, "fail")
       /\ r.totalTokens = SumField(r.perSource, names, "tokens")
       /\ r.totalCost = SumField(r.perSource, names, "cost")
       /\ Cardinality(names) = Len(sources)

AllCarry(rows, date) == \A k \in DOMAIN rows : rows[k].date = date

\* C28: the date is read once, when the run starts, and every row of the run
\* carries that date, also when calls complete after the calendar day has
\* changed.
C28_SingleRunDate ==
  [][ /\ (rpc = "idle" /\ rpc' # "idle") => dateStr' = today
      /\ rpc # "idle" => dateStr' = dateStr
      /\ AllCarry(srcRows', dateStr') /\ AllCarry(allRows', dateStr')
      /\ rpc' = "returned" => AllCarry(runResult'.rows, dateStr') ]_vars

C28_Witness ==
  /\ rpc = "returned"
  /\ dateStr = Days[1]
  /\ today = Days[2]
  /\ Len(runResult.rows) = 2
  /\ runResult.rows[1].date = Days[1]
  /\ runResult.rows[2].date = Days[1]
  /\ Len(sources) = 2

\* The rate table of the claim, in units of 1/2 USD per million tokens.
RatePerMillionTimes2(p) ==
  IF p = "Perplexity" THEN 2
  ELSE IF p = "Gemini" THEN 1
  ELSE IF p = "ChatGPT" THEN 15
  ELSE IF p = "Claude" THEN 12
  ELSE 2

\* Tokens reported to the s-th source's calls of this run.
TokensUsed(s) ==
  (Cardinality(EventsOf("ok", s)) + Cardinality(EventsOf("bad", s))) * sources[s].tokens

RECURSIVE SumOver(_, _)
SumOver(f, n) == IF n = 0 THEN 0 ELSE f[n] + SumOver(f, n - 1)

ProviderNames == {"Perplexity", "Gemini", "ChatGPT", "Claude", "Mistral"}
TokenCounts == {0, 250, 1000000}

MaxCitations == 4
ContentLengths == {0, 40}

\* The factors object calculateScore destructures.
Factors ==
  [mentioned : BOOLEAN, recommended : BOOLEAN, position : 0..4,
   citationCount : 0..MaxCitations, contentLength : ContentLengths]

Min(a, b) == IF a <= b THEN a ELSE b

mentionBonus(f) == IF f.mentioned THEN 30 ELSE 0

recommendationBonus_Penalty(f) == IF f.recommended THEN 0 - 20 ELSE 0

recommendationBonus(f) == IF f.recommended THEN 20 ELSE 0

citationBonus(f) ==
  IF f.citationCount >= 1 THEN 15 + Min((f.citationCount - 1) * 10, 20) ELSE 0

positionBonus_None(f) == 0

positionBonus(f) ==
  IF f.mentioned /\ f.position = 1 THEN 15
  ELSE IF f.mentioned /\ f.position = 2 THEN 8
  ELSE 0

calculateScore(f) ==
  IF ~f.mentioned /\ f.citationCount = 0 THEN 0
  ELSE Min(mentionBonus(f) + recommendationBonus(f) + citationBonus(f) + positionBonus(f), 100)

InitScore ==
  /\ RunInit
  /\ MainIdle
  /\ SendIdle
  /\ CsvIdle
  /\ fnIn \in Factors
  /\ fnOut = 0
  /\ fnpc = "ready"

Score ==
  /\ fnpc = "ready"
  /\ fnOut' = calculateScore(fnIn)
  /\ fnpc' = "done"
  /\ UNCHANGED <<fnIn, csvVars, sendVars, runVars, mainVars>>

NextScore == Score
SpecScore == InitScore /\ [][NextScore]_vars

Maximal(f, least) ==
  f.mentioned /\ f.recommended /\ f.position = 1 /\ f.citationCount >= least

\* C15 (as stated): the score is an integer in [0,100], and it is exactly 100
\* for mentioned, recommended, position 1 and citationCount >= 2.
C15_ScoreCeiling ==
  fnpc = "done" =>
    /\ fnOut \in 0..100
    /\ Maximal(fnIn, 2) => fnOut = 100

\* C15 (amended): the score is an integer in [0,100], and it is exactly 100
\* for mentioned, recommended, position 1 and citationCount >= 3.
C15_ScoreCeilingFromThree ==
  fnpc = "done" =>
    /\ fnOut \in 0..100
    /\ Maximal(fnIn, 3) => fnOut = 100

C15_Witness ==
  fnpc = "done" /\ Maximal(fnIn, 3) /\ fnIn.citationCount = MaxCitations /\ fnOut = 100

\* Earlier quartile: a mention at position p is at least as early as at q.
Earlier(p, q) == p >= 1 /\ p <= q

\* g differs from f in one factor only, and in the favourable direction.
Improves(f, g) ==
  \/ g = [f EXCEPT !.citationCount = g.citationCount] /\ g.citationCount >= f.citationCount
  \/ g = [f EXCEPT !.recommended = TRUE]
  \/ g = [f EXCEPT !.position = g.position] /\ f.mentioned /\ f.position >= 1
       /\ Earlier(g.position, f.position)

\* C17: with the other factors fixed the score never decreases when
\* citationCount increases, when recommended becomes true or when the mention
\* moves to an earlier quartile; and for a mention without recommendation and
\* citations, position 1 scores strictly more than position 4.
C17_ScoreMonotone ==
  fnpc = "done" =>
    /\ \A g \in Factors : Improves(fnIn, g) => calculateScore(g) >= fnOut
    /\ (fnIn.mentioned /\ ~fnIn.recommended /\ fnIn.citationCount = 0 /\ fnIn.position = 4)
         => calculateScore([fnIn EXCEPT !.position = 1]) > fnOut

C17_Witness ==
  /\ fnpc = "done"
  /\ fnIn.mentioned /\ ~fnIn.recommended /\ fnIn.citationCount = 0 /\ fnIn.position = 4
  /\ fnOut = 30
  /\ calculateScore([fnIn EXCEPT !.position = 1]) = 45

\* ---------------------------------------------------------------------------
\* Response analysis (analysis.js, analyzeResponse)
\* Strings are sequences of one-character strings.
\* ---------------------------------------------------------------------------

DS_KEYWORDS ==
  << <<"d", "e", "v", "e", "l", "o", "p", "m", "e", "n", "t", " ", "s",
       "e", "e", "d">>,
     <<"d", "e", "v", "e", "l", "o", "p", "m", "e", "n", "t", "s", "e",
       "e", "d">>,
     <<"d", "e", "v", "s", "e", "e", "d">>,
     <<"t", "i", "t", "i", "l", "e", "r">>,
     <<"v", "e", "d", "a", " ", "d", "a", "s", "h", "b", "o", "a", "r", "d">>,
     <<"v", "e", "d", "a">>,
     <<"c", "o", "g", "e", "o", "-", "m", "o", "s", "a", "i", "c">> >>

DS_DOMAIN ==
    <<"d", "e", "v", "e", "l", "o", "p", "m", "e", "n", "t", "s", "e", "e",
      "d", ".", "o", "r", "g">>

RECOMMENDATION_WORDS ==
  << <<"r", "e", "c", "o", "m", "m", "e", "n", "d", "e", "d">>,
     <<"r", "e", "c", "o", "m", "m", "e", "n", "d">>,
     <<"b", "e", "s", "t">>,
     <<"p", "o", "p", "u", "l", "a", "r">>,
     <<"l", "e", "a", "d", "i", "n", "g">>,
     <<"t", "o", "p">>,
     <<"e", "x", "c", "e", "l", "l", "e", "n", "t">>,
     <<"p", "o", "w", "e", "r", "f", "u", "l">>,
     <<"w", "i", "d", "e", "l", "y", " ", "u", "s", "e", "d">>,
     <<"w", "e", "l", "l", "-", "k", "n", "o", "w", "n">>,
     <<"g", "o", "-", "t", "o">>,
     <<"n", "o", "t", "a", "b", "l", "e">>,
     <<"p", "r", "o", "m", "i", "n", "e", "n", "t">>,
     <<"t", "r", "u", "s", "t", "e", "d">> >>

UpperCase ==
    <<"A", "B", "C", "D", "E", "F", "G", "H", "I", "J", "K", "L", "M", "N",
      "O", "P", "Q", "R", "S", "T", "U", "V", "W", "X", "Y", "Z">>
LowerCase ==
    <<"a", "b", "c", "d", "e", "f", "g", "h", "i", "j", "k", "l", "m", "n",
      "o", "p", "q", "r", "s", "t", "u", "v", "w", "x", "y", "z">>

\* String.prototype.toLowerCase on the letters A-Z
toLowerCase(s) ==
  [k \in DOMAIN s |->
     IF \E u \in DOMAIN UpperCase : UpperCase[u] = s[k]
     THEN LowerCase[CHOOSE u \in DOMAIN UpperCase : UpperCase[u] = s[k]]
     ELSE s[k]]

\* String.prototype.indexOf: 0-based index of the first occurrence, or -1
indexOf(s, word) ==
  LET at == {i \in 0..(Len(s) - Len(word)) : SubSeq(s, i + 1, i + Len(word)) = word}
  IN IF at = {} THEN 0 - 1 ELSE CHOOSE i \in at : \A j \in at : i <= j

includes(s, word) == indexOf(s, word) # 0 - 1

\* Math.ceil(fraction * 4) || 1 with fraction = index / Math.max(length, 1)
quartile(index, length) ==
  LET len == IF length >= 1 THEN length ELSE 1
      q == (index * 4 + len - 1) \div len
  IN IF q = 0 THEN 1 ELSE q

\* the first keyword of the list that occurs decides, not the earliest match
detectMentions_FirstListed(contentLower) ==
  LET hits == {k \in DOMAIN DS_KEYWORDS : indexOf(contentLower, DS_KEYWORDS[k]) # 0 - 1}
  IN IF hits = {} THEN [mentioned |-> FALSE, position |-> 0]
     ELSE LET first == CHOOSE k \in hits : \A j \in hits : k <= j
          IN [mentioned |-> TRUE,
              position |-> quartile(indexOf(contentLower, DS_KEYWORDS[first]), Len(contentLower))]

detectMentions(contentLower) ==
  LET found == {indexOf(contentLower, DS_KEYWORDS[k]) : k \in DOMAIN DS_KEYWORDS} \ {0 - 1}
  IN IF found = {} THEN [mentioned |-> FALSE, position |-> 0]
     ELSE LET earliestIndex == CHOOSE i \in found : \A j \in found : i <= j
          IN [mentioned |-> TRUE, position |-> quartile(earliestIndex, Len(contentLower))]

detectRecommendation(contentLower) ==
  \E k \in DOMAIN RECOMMENDATION_WORDS : includes(contentLower, RECOMMENDATION_WORDS[k])

\* A citation that is not a string (typeof url !== 'string')
NotAString == <<"<null>">>

isDsCitation(url) == url # NotAString /\ includes(url, DS_DOMAIN)

\* result.url && result.url.includes(DS_DOMAIN): the empty url is falsy
isDsResult(result) == result.url # <<>> /\ includes(result.url, DS_DOMAIN)

extractDsPages(citations, searchResults) ==
  LET found == SelectSeq(searchResults, isDsResult)
  IN Unique(SelectSeq(citations, isDsCitation) \o [k \in DOMAIN found |-> found[k].url])

analyzeResponse(result) ==
  LET contentLower == toLowerCase(result.content)
      mention == detectMentions(contentLower)
      recommended == IF mention.mentioned THEN detectRecommendation(contentLower) ELSE FALSE
      dsPages == extractDsPages(result.citations, result.searchResults)
      citationCount == Len(dsPages)
  IN [mentioned |-> mention.mentioned,
      recommended |-> recommended,
      position |-> mention.position,
      citationCount |-> citationCount,
      prominenceScore |->
        calculateScore([mentioned |-> mention.mentioned, recommended |-> recommended,
                        position |-> mention.position, citationCount |-> citationCount,
                        contentLength |-> Len(result.content)]),
      dsPages |-> dsPages]

\* Response texts
TxtTools ==
    <<"T", "r", "y", " ", "G", "D", "A", "L", " ", "o", "r", " ", "r", "a",
      "s", "t", "e", "r", "i", "o", ".", " ">>
TxtVeda ==
    <<"V", "E", "D", "A">>
TxtBest ==
    <<"b", "e", "s", "t", " ">>
TxtTitiler ==
    <<"T", "i", "T", "i", "l", "e", "r", " ", "r", "o", "c", "k", "s">>

Contents ==
  {<<>>, TxtTools, TxtVeda, TxtTools \o TxtVeda, TxtVeda \o TxtTools, TxtBest \o TxtVeda,
   TxtBest \o TxtTitiler, TxtTools \o TxtBest, TxtTools \o TxtTools \o TxtTitiler,
   TxtVeda \o TxtTools \o TxtTitiler}

Https ==
    <<"h", "t", "t", "p", "s", ":", "/", "/">>
UrlBlog == Https \o DS_DOMAIN \o
    <<"/", "b", "l", "o", "g">>
UrlGdal == Https \o
    <<"g", "d", "a", "l", ".", "o", "r", "g">>
UrlQuery == Https \o
    <<"x", ".", "i", "o", "/", "?", "q", "=">>
    \o DS_DOMAIN
UrlOtherHost == Https \o DS_DOMAIN \o
    <<".", "e", "v", "i", "l", ".", "i", "o", "/">>

CitationItems == {UrlBlog, UrlGdal, UrlQuery, NotAString}
CitationLists == SeqsUpTo(CitationItems, MaxItems)

SearchResultLists ==
  {<<>>, <<SearchResult(UrlBlog)>>, <<SearchResult(<<>>)>>, <<SearchResult(UrlOtherHost)>>,
   <<SearchResult(UrlGdal), SearchResult(UrlBlog)>>,
   <<SearchResult(UrlBlog), SearchResult(UrlBlog)>>}

NormalizedResults ==
  [content : Contents, citations : CitationLists, searchResults : SearchResultLists]

InitAnalyze ==
  /\ RunInit
  /\ MainIdle
  /\ SendIdle
  /\ CsvIdle
  /\ fnIn \in NormalizedResults
  /\ fnOut = <<>>
  /\ fnpc = "ready"

Analyze ==
  /\ fnpc = "ready"
  /\ fnOut' = analyzeResponse(fnIn)
  /\ fnpc' = "done"
  /\ UNCHANGED <<fnIn, csvVars, sendVars, runVars, mainVars>>

NextAnalyze == Analyze
SpecAnalyze == InitAnalyze /\ [][NextAnalyze]_vars

\* The host of a URL: what follows "://" up to the first "/", "?" or "#".
HostOf(url) ==
  LET start == indexOf(url, <<":", "/", "/">>)
      rest == IF start = 0 - 1 THEN url ELSE SubSeq(url, start + 4, Len(url))
      stops == {k \in DOMAIN rest : rest[k] \in {"/", "?", "#"}}
      end == IF stops = {} THEN Len(rest) ELSE (CHOOSE k \in stops : \A j \in stops : k <= j) - 1
  IN SubSeq(rest, 1, end)

OnTrackedHost(url) == url # NotAString /\ url # <<>> /\ HostOf(url) = DS_DOMAIN

\* Every URL a result carries, in its citations or its search results.
UrlsOf(result) ==
  {result.citations[k] : k \in DOMAIN result.citations}
    \cup {result.searchResults[k].url : k \in DOMAIN result.searchResults}

HasKeyword(content) ==
  \E k \in DOMAIN DS_KEYWORDS : includes(toLowerCase(content), DS_KEYWORDS[k])

\* C16: without a mention and without a citation the score is 0 whatever the
\* other factors are, and a result whose text has no tracked keyword and whose
\* citations and search results have no URL on the tracked domain scores 0.
C16_ZeroEvidenceFloor ==
  fnpc = "done" =>
    /\ (~fnOut.mentioned /\ fnOut.citationCount = 0) => fnOut.prominenceScore = 0
    /\ (~HasKeyword(fnIn.content) /\ ~\E u \in UrlsOf(fnIn) : OnTrackedHost(u))
         => fnOut.prominenceScore = 0

\* C18: dsPages has no duplicates, holds exactly the citation URLs and
\* search-result URLs whose host is the tracked domain (not those that carry
\* the domain in the path, the query or another host), and citationCount is
\* its length.
C18_DsPagesByHost ==
  fnpc = "done" =>
    /\ Distinct(fnOut.dsPages)
    /\ {fnOut.dsPages[k] : k \in DOMAIN fnOut.dsPages} = {u \in UrlsOf(fnIn) : OnTrackedHost(u)}
    /\ fnOut.citationCount = Len(fnOut.dsPages)

\* Offsets at which some tracked keyword occurs in the lower-cased content.
KeywordOffsets(content) ==
  LET lower == toLowerCase(content)
  IN {o \in 0..Len(lower) :
        \E k \in DOMAIN DS_KEYWORDS :
          /\ o + Len(DS_KEYWORDS[k]) <= Len(lower)
          /\ SubSeq(lower, o + 1, o + Len(DS_KEYWORDS[k])) = DS_KEYWORDS[k]}

\* The least q in 0..4 with q * len >= 4 * o, i.e. ceil(4 * o / len).
CeilQuarters(o, len) == CHOOSE q \in 0..4 : q * len >= 4 * o /\ \A r \in 0..4 : r * len >= 4 * o => q <= r

\* C24: position is 0 exactly when mentioned is false; for a mention it is in
\* 1..4 and equals max(1, ceil(4 * o / max(len(content), 1))), o being the
\* smallest offset at which any tracked keyword occurs in the lower-cased
\* content, whatever the order of the keyword list.
C24_MentionPosition ==
  fnpc = "done" =>
    LET offsets == KeywordOffsets(fnIn.content)
        len == IF Len(fnIn.content) >= 1 THEN Len(fnIn.content) ELSE 1
    IN /\ fnOut.mentioned <=> offsets # {}
       /\ fnOut.position = 0 <=> ~fnOut.mentioned
       /\ fnOut.mentioned =>
            LET o == CHOOSE i \in offsets : \A j \in offsets : i <= j
                q == CeilQuarters(o, len)
            IN /\ fnOut.position \in 1..4
               /\ fnOut.position = IF q >= 1 THEN q ELSE 1

C24_Witness ==
  /\ fnpc = "done"
  /\ fnIn.content = TxtVeda \o TxtTools \o TxtTitiler
  /\ fnOut.mentioned
  /\ fnOut.position = 1
  /\ indexOf(toLowerCase(fnIn.content), DS_KEYWORDS[4]) = 26
  /\ indexOf(toLowerCase(fnIn.content), DS_KEYWORDS[6]) = 0

\* ---------------------------------------------------------------------------
\* CSV store (csv-store.js, initCsv and appendResults)
\* The file content is one string, a sequence of one-character strings.
\* ---------------------------------------------------------------------------

MaxCalls == 3
MaxRows == 2

HEADERS ==
  << <<"d", "a", "t", "e">>,
     <<"s", "o", "u", "r", "c", "e">>,
     <<"q", "u", "e", "r", "y", "_", "n", "a", "m", "e">>,
     <<"q", "u", "e", "r", "y", "_", "i", "d">>,
     <<"c", "a", "t", "e", "g", "o", "r", "y">>,
     <<"p", "r", "o", "m", "i", "n", "e", "n", "c", "e", "_", "s", "c",
       "o", "r", "e">>,
     <<"m", "e", "n", "t", "i", "o", "n", "e", "d">>,
     <<"r", "e", "c", "o", "m", "m", "e", "n", "d", "e", "d">>,
     <<"p", "o", "s", "i", "t", "i", "o", "n">>,
     <<"c", "i", "t", "a", "t", "i", "o", "n", "_", "c", "o", "u", "n", "t">>,
     <<"d", "a", "t", "a", "_", "s", "o", "u", "r", "c", "e">>,
     <<"d", "s", "_", "p", "a", "g", "e", "s">>,
     <<"t", "o", "k", "e", "n", "s">> >>

RECURSIVE join(_, _)
join(strs, sep) ==
  IF strs = <<>> THEN <<>>
  ELSE IF Len(strs) = 1 THEN strs[1]
  ELSE strs[1] \o sep \o join(Tail(strs), sep)

\* str.replace(/"/g, '""')
RECURSIVE doubleQuotes(_)
doubleQuotes(str) ==
  IF str = <<>> THEN <<>>
  ELSE (IF Head(str) = "\"" THEN <<"\"", "\"">> ELSE <<Head(str)>>) \o doubleQuotes(Tail(str))

escapeCsv(str) ==
  IF includes(str, <<",">>) \/ includes(str, <<"\"">>) \/ includes(str, <<"\n">>)
  THEN <<"\"">> \o doubleQuotes(str) \o <<"\"">>
  ELSE str

Digits == <<"0", "1", "2", "3", "4", "5", "6", "7", "8", "9">>

\* String(value) of a non-negative integer
RECURSIVE NumberString(_)
NumberString(n) ==
  IF n < 10 THEN <<Digits[n + 1]>>
  ELSE NumberString(n \div 10) \o <<Digits[(n % 10) + 1]>>

\* String(value) of a boolean
BooleanString(b) ==
  IF b THEN <<"t", "r", "u", "e">> ELSE <<"f", "a", "l", "s", "e">>

buildRow(row) ==
  join(<< escapeCsv(row.date), escapeCsv(row.source), escapeCsv(row.query_name),
          escapeCsv(row.query_id), escapeCsv(row.category),
          escapeCsv(NumberString(row.prominence_score)),
          escapeCsv(BooleanString(row.mentioned)),
          escapeCsv(BooleanString(row.recommended)),
          escapeCsv(NumberString(row.position)),
          escapeCsv(NumberString(row.citation_count)),
          escapeCsv(row.data_source), escapeCsv(row.ds_pages),
          escapeCsv(NumberString(row.tokens)) >>, <<",">>)

HeaderLine == join(HEADERS, <<",">>) \o <<"\n">>

\* content.trim().length === 0
isBlank(content) == \A k \in DOMAIN content : content[k] \in {" ", "\t", "\n", "\r"}

\* Result rows handed to the store
RowVeda ==
  [date |-> <<"2", "0", "2", "6", "-", "0", "2", "-", "0", "9">>,
   source |-> <<"C", "l", "a", "u", "d", "e">>,
   query_name |-> <<"V", "e", "d", "a", ",", " ", "\"", "t", "h", "e", "\"", " ", "d",
       "a", "s", "h", "b", "o", "a", "r", "d">>,
   query_id |-> <<"v", "e", "d", "a", "-", "d", "a", "s", "h", "b", "o", "a", "r", "d">>,
   category |-> <<"p", "r", "o", "d", "u", "c", "t">>,
   prominence_score |-> 45, mentioned |-> TRUE, recommended |-> FALSE,
   position |-> 1, citation_count |-> 0,
   data_source |-> <<"t", "r", "a", "i", "n", "i", "n", "g">>,
   ds_pages |-> <<>>,
   tokens |-> 400]

RowStac ==
  [date |-> <<"2", "0", "2", "6", "-", "0", "2", "-", "0", "9">>,
   source |-> <<"P", "e", "r", "p", "l", "e", "x", "i", "t", "y">>,
   query_name |-> <<"S", "T", "A", "C">>,
   query_id |-> <<"s", "t", "a", "c">>,
   category |-> <<"s", "t", "a", "n", "d", "a", "r", "d">>,
   prominence_score |-> 0, mentioned |-> FALSE, recommended |-> FALSE,
   position |-> 0, citation_count |-> 0,
   data_source |-> <<"w", "e", "b">>,
   ds_pages |-> <<>>,
   tokens |-> 250]

RowPool == {RowVeda, RowStac}

\* The rows argument: an array, null or undefined
RowsArguments ==
  {[kind |-> "array", items |-> r] : r \in SeqsUpTo(RowPool, MaxRows)}
    \cup {[kind |-> "null", items |-> <<>>], [kind |-> "undefined", items |-> <<>>]}

\* The file before the run: missing (with or without its directory), empty,
\* whitespace only, header only, header and a data line, a data line only.
PriorFiles ==
  {[dir |-> FALSE, exists |-> FALSE, content |-> <<>>],
   [dir |-> TRUE, exists |-> FALSE, content |-> <<>>],
   [dir |-> TRUE, exists |-> TRUE, content |-> <<>>],
   [dir |-> TRUE, exists |-> TRUE, content |-> <<" ", "\n">>],
   [dir |-> TRUE, exists |-> TRUE, content |-> HeaderLine],
   [dir |-> TRUE, exists |-> TRUE, content |-> HeaderLine \o buildRow(RowStac) \o <<"\n">>],
   [dir |-> TRUE, exists |-> TRUE, content |-> buildRow(RowStac) \o <<"\n">>]}

\* appendFileSync(filepath, data): creates the file when it is missing
appendFileSync(file, data) ==
  [dir |-> file.dir, exists |-> TRUE, content |-> file.content \o data]

needsHeader_Always(file) == TRUE

\* !existsSync(filepath), or the content read from it is blank
needsHeader(file) == ~file.exists \/ isBlank(file.content)

InitCsv ==
  /\ RunInit
  /\ MainIdle
  /\ SendIdle
  /\ fnIn = <<>>
  /\ fnOut = <<>>
  /\ fnpc = "idle"
  /\ csvFile \in PriorFiles
  /\ csvCall = [op |-> "none", rows |-> [kind |-> "undefined", items |-> <<>>]]
  /\ csvRet = 0
  /\ csvBefore = csvFile
  /\ csvCallBefore = csvCall
  /\ csvCalls = 0

initCsv ==
  /\ csvCalls < MaxCalls
  /\ LET made == [csvFile EXCEPT !.dir = TRUE]
     IN csvFile' = IF needsHeader(made) THEN appendFileSync(made, HeaderLine) ELSE made
  /\ csvCall' = [op |-> "initCsv", rows |-> [kind |-> "undefined", items |-> <<>>]]
  /\ csvRet' = 0
  /\ csvBefore' = csvFile
  /\ csvCallBefore' = csvCall
  /\ csvCalls' = csvCalls + 1
  /\ UNCHANGED <<fnVars, sendVars, runVars, mainVars>>

\* The store is written only after initCsv has run (csv-store.js line 102,
\* index.js calls initCsv before appendResults).
appendResults ==
  /\ csvCalls < MaxCalls
  /\ csvCall.op # "none"
  /\ \E rows \in RowsArguments :
       /\ IF rows.kind # "array" \/ Len(rows.items) = 0
            THEN /\ csvRet' = 0
                 /\ csvFile' = csvFile
            ELSE LET built == [k \in DOMAIN rows.items |-> buildRow(rows.items[k])]
                 IN /\ csvFile' = appendFileSync(csvFile, join(built, <<"\n">>) \o <<"\n">>)
                    /\ csvRet' = Len(rows.items)
       /\ csvCall' = [op |-> "appendResults", rows |-> rows]
  /\ csvBefore' = csvFile
  /\ csvCallBefore' = csvCall
  /\ csvCalls' = csvCalls + 1
  /\ UNCHANGED <<fnVars, sendVars, runVars, mainVars>>

NextCsv == initCsv \/ appendResults
SpecCsv == InitCsv /\ [][NextCsv]_vars

\* The lines of a file content, without their line ends.
RECURSIVE LinesOf(_)
LinesOf(content) ==
  IF content = <<>> THEN <<>>
  ELSE LET ends == {k \in DOMAIN content : content[k] = "\n"}
       IN IF ends = {} THEN <<content>>
          ELSE LET e == CHOOSE k \in ends : \A j \in ends : k <= j
               IN <<SubSeq(content, 1, e - 1)>> \o LinesOf(SubSeq(content, e + 1, Len(content)))

HeaderLines(content) ==
  Cardinality({k \in DOMAIN LinesOf(content) : LinesOf(content)[k] \o <<"\n">> = HeaderLine})

\* The lines appendResults is to add for a rows argument.
RowLines(rows) == [k \in DOMAIN rows.items |-> buildRow(rows.items[k])]

NoRows(rows) == rows.kind # "array" \/ rows.items = <<>>

\* appendResults appended the rows in order after what was there and
\* returned their count; nothing and 0 for an empty, null or undefined list.
AppendedInOrder ==
  csvCall.op = "appendResults" =>
    /\ csvFile.content = csvBefore.content \o join(RowLines(csvCall.rows), <<"\n">>)
                           \o (IF NoRows(csvCall.rows) THEN <<>> ELSE <<"\n">>)
    /\ LinesOf(csvFile.content) = LinesOf(csvBefore.content) \o RowLines(csvCall.rows)
    /\ csvRet = IF NoRows(csvCall.rows) THEN 0 ELSE Len(csvCall.rows.items)
    /\ NoRows(csvCall.rows) => csvFile = csvBefore

Repeated == csvCall.op # "none" /\ csvCall = csvCallBefore

DataLines(content) ==
  SelectSeq(LinesOf(content),
            LAMBDA line : line \o <<"\n">> # HeaderLine /\ ~isBlank(line))

\* C29: after initCsv returns, whatever the file was before (missing, empty,
\* whitespace only, with the header, or data lines without a header), its
\* first line is the header row and the data lines that were there are all
\* still there in their order.
C29_HeaderFirst ==
  csvCall.op = "initCsv" =>
    /\ csvFile.exists
    /\ LinesOf(csvFile.content) # <<>>
    /\ LinesOf(csvFile.content)[1] \o <<"\n">> = HeaderLine
    /\ DataLines(csvFile.content) = DataLines(csvBefore.content)


(***************************************************************************)
(* Termination of a run (checked under SpecRunFair).                       *)
(***************************************************************************)
CallsIssued == Cardinality({k \in DOMAIN trace : trace[k].ev = "call"})

Keyless == {k \in DOMAIN callLog : ~callLog[k].hadKey}

\* The k-th call of a run is to source (k-1) \div n + 1 with query (k-1) % n + 1.
InLoopOrder ==
  \A k \in DOMAIN callLog :
    /\ callLog[k].src = ((k - 1) \div Len(queries)) + 1
    /\ callLog[k].q = ((k - 1) % Len(queries)) + 1

\* main selects exactly the providers whose key is set, in registry order.
SelectsEnabled ==
  (mpc = "start" /\ mpc' = "running")
    => /\ \A k \in DOMAIN sources' : sources'[k].name \in apiKeys
       /\ \A k \in DOMAIN ALL_SOURCES :
            ALL_SOURCES[k].name \notin apiKeys
              => \A j \in DOMAIN sources' : sources'[j].name # ALL_SOURCES[k].name

\* A call made while its provider's key is absent sends nothing, throws, and
\* is counted as one failure; the loop goes on.
KeylessCallFails ==
  (callLog' # callLog /\ ~callLog'[Len(callLog')].hadKey)
    => /\ ~callLog'[Len(callLog')].fetched
       /\ callLog'[Len(callLog')].outcome = "throw"
       /\ fail' = fail + 1
       /\ success' = success
       /\ srcRows' = srcRows
       /\ srcTokens' = srcTokens
       /\ rpc' \in {"sleeping", "awaitTrackSource"}

\* C23: missing credentials are never fatal to a run.  A provider whose key
\* is absent when main selects the sources is not selected and receives no
\* call; the key is read again on every call, so a call is sent to the
\* network exactly when the key is set at that moment; a call made without
\* the key throws without a request and is counted as exactly one failed
\* unit; and the run still makes every call of every selected provider, in
\* loop order, before it returns.
C23_MissingCredentialsNotFatal ==
  /\ [](\A k \in DOMAIN callLog :
          /\ callLog[k].src \in DOMAIN sources
          /\ callLog[k].fetched <=> callLog[k].hadKey)
  /\ [](rpc = "returned"
          => /\ Len(callLog) = Len(sources) * Len(queries)
             /\ InLoopOrder
             /\ totalFail >= Cardinality(Keyless)
             /\ totalSuccess + totalFail = Len(callLog))
  /\ [][SelectsEnabled /\ KeylessCallFails /\ (mpc = "running" => sources' = sources)]_vars

\* A provider loses its key after its first call went out; its second call
\* fails without a request and the next provider is still called.
C23_Witness ==
  /\ mpc = "exited"
  /\ Len(callLog) = 4
  /\ callLog[1].hadKey /\ callLog[1].fetched /\ callLog[1].outcome = "ok"
  /\ ~callLog[2].hadKey /\ ~callLog[2].fetched /\ callLog[2].src = 1
  /\ callLog[3].src = 2 /\ callLog[3].fetched /\ callLog[3].outcome = "ok"
  /\ sources[1].name \notin apiKeys
  /\ runResult.totalFail >= 1

\* C25: when at least one query is configured and at least one source is
\* enabled, main leaves a nonzero exit code exactly when the run's totalFail
\* is greater than its totalSuccess (a tie exits 0), and the rows of the run
\* have been appended to the store whatever the exit code is.
C25_EscalationThreshold ==
  (mpc = "exited" /\ Len(configured) >= 1 /\ Len(sources) >= 1)
    => /\ rpc = "returned"
       /\ (exitCode # 0) <=> (runResult.totalFail > runResult.totalSuccess)
       /\ (runResult.totalFail = runResult.totalSuccess => exitCode = 0)
       /\ \E prior \in PriorRows : persisted = prior \o runResult.rows

\* An escalated run whose one successful row is in the store.
C25_Witness ==
  /\ mpc = "exited"
  /\ rpc = "returned"
  /\ exitCode = 1
  /\ runResult.totalSuccess = 1
  /\ runResult.totalFail = 3
  /\ Len(runResult.rows) = 1
  /\ persisted = <<OldRow>> \o runResult.rows

====
